---- MODULE Spec2Model ----
(***************************************************************************)
(* Publar: network simulation and scenario playback (publar/src/main.rs,   *)
(* testnet.rs, scenario.rs).  The App component's signals are the state;   *)
(* every UI handler is one action; every future handed to spawn() is a     *)
(* task that runs, without interleaving, from one suspension point         *)
(* (.await that really suspends) to the next.  All tasks and handlers run  *)
(* on the single UI thread, so a std::sync::Mutex::lock() on a mutex whose *)
(* guard is kept by a suspended task never returns: the thread is stuck.   *)
(***************************************************************************)
EXTENDS Integers, Sequences, FiniteSets, TLC

\* ---------------------------------------------------------------- bounds
MaxEvents == 5       \* UI budget (button clicks) handled in one behaviour, from construction
MaxPlayEvents == 2   \* UI budget handled in one behaviour, from the started network
MaxNodes == 2        \* nodes the user adds by hand before the model stops adding
RLClients == 2       \* clients of the reduced "Rate Limiting" scenario (source: 5)
RLWrites == 2        \* writes per client of the reduced "Rate Limiting" scenario (source: 10)
MaxOverrun == 1      \* poll intervals by which one probe may outlast the timeout of its wait

None == "None"       \* Option::None of a String / handle field
NoTask == 0          \* no task (lock is free, thread is not stuck)
PollInterval == 10   \* tokio::time::sleep(from_millis(100)) between two probes

\* ------------------------------------------------------------- variables
VARIABLES
    is_network_running, nodes, edges, client_keypairs, client_sessions,
    testnet, manager_lock, homeserver_urls,
    is_creating_homeserver, is_creating_client, is_playing_scenario,
    event_log, event_counter, is_writing, is_reading,
    tasks, stuck,
    provisioned, keys_made, connects_done, scenarios, budget,
    positions, ticks, layout_spawned, scenario_files

vars == << is_network_running, nodes, edges, client_keypairs, client_sessions,
           testnet, manager_lock, homeserver_urls,
           is_creating_homeserver, is_creating_client, is_playing_scenario,
           event_log, event_counter, is_writing, is_reading,
           tasks, stuck,
           provisioned, keys_made, connects_done, scenarios, budget,
           positions, ticks, layout_spawned, scenario_files >>

\* The whole state as one record, so that handlers are functions on it.
St == [ is_network_running |-> is_network_running, nodes |-> nodes, edges |-> edges,
        client_keypairs |-> client_keypairs, client_sessions |-> client_sessions,
        testnet |-> testnet, manager_lock |-> manager_lock,
        homeserver_urls |-> homeserver_urls,
        is_creating_homeserver |-> is_creating_homeserver,
        is_creating_client |-> is_creating_client,
        is_playing_scenario |-> is_playing_scenario,
        event_log |-> event_log, event_counter |-> event_counter,
        is_writing |-> is_writing, is_reading |-> is_reading,
        tasks |-> tasks, stuck |-> stuck,
        provisioned |-> provisioned, keys_made |-> keys_made,
        connects_done |-> connects_done, scenarios |-> scenarios, budget |-> budget,
        positions |-> positions, ticks |-> ticks, layout_spawned |-> layout_spawned,
        scenario_files |-> scenario_files ]

Apply(S) ==
    /\ is_network_running' = S.is_network_running
    /\ nodes' = S.nodes
    /\ edges' = S.edges
    /\ client_keypairs' = S.client_keypairs
    /\ client_sessions' = S.client_sessions
    /\ testnet' = S.testnet
    /\ manager_lock' = S.manager_lock
    /\ homeserver_urls' = S.homeserver_urls
    /\ is_creating_homeserver' = S.is_creating_homeserver
    /\ is_creating_client' = S.is_creating_client
    /\ is_playing_scenario' = S.is_playing_scenario
    /\ event_log' = S.event_log
    /\ event_counter' = S.event_counter
    /\ is_writing' = S.is_writing
    /\ is_reading' = S.is_reading
    /\ tasks' = S.tasks
    /\ stuck' = S.stuck
    /\ provisioned' = S.provisioned
    /\ keys_made' = S.keys_made
    /\ connects_done' = S.connects_done
    /\ scenarios' = S.scenarios
    /\ budget' = S.budget
    /\ positions' = S.positions
    /\ ticks' = S.ticks
    /\ scenario_files' = S.scenario_files
    \* the layout effect runs again after every write of nodes and spawns a
    \* layout task if it reads more than one node
    /\ layout_spawned' = ( \/ S.layout_spawned
                           \/ ( /\ Len(S.nodes) > 1
                                /\ (S.nodes # nodes \/ S.positions # positions) ) )

\* ------------------------------------------------------------ data model
EmptyMap == [k \in {} |-> None]

MapInsert(m, k, v) == [x \in (DOMAIN m) \cup {k} |-> IF x = k THEN v ELSE m[x]]

MapGet(m, k) == IF k \in DOMAIN m THEN m[k] ELSE None

Homeserver(id, status, http_url, public_key) ==
    [ kind |-> "Homeserver", id |-> id, status |-> status, http_url |-> http_url,
      public_key |-> public_key, connected_homeserver |-> None ]

Client(id, status, public_key) ==
    [ kind |-> "Client", id |-> id, status |-> status, http_url |-> None,
      public_key |-> public_key, connected_homeserver |-> None ]

Edge(from, to) == [ from |-> from, to |-> to, edge_type |-> "Connection" ]

HomeserverName(n) == "homeserver-" \o ToString(n)

ClientName(n) == "client-" \o ToString(n)

CountKind(ns, kind) == Cardinality({i \in 1..Len(ns) : ns[i].kind = kind})

NodeIds(ns) == {ns[i].id : i \in 1..Len(ns)}

Retain(ns, id) == SelectSeq(ns, LAMBDA n : n.id # id)

\* the indices of the nodes that retain keeps, in order
Kept(ns, id) == SelectSeq([i \in 1..Len(ns) |-> i], LAMBDA i : ns[i].id # id)

\* index of the first node of that kind and id (0: none): "for node in iter_mut() .. break"
FirstIndex(ns, kind, id) ==
    LET hits == {i \in 1..Len(ns) : ns[i].kind = kind /\ ns[i].id = id}
    IN  IF hits = {} THEN 0 ELSE CHOOSE i \in hits : \A j \in hits : i <= j

\* find_map over the homeservers of that id: the first Some(field)
FindHomeserverField(ns, id, field) ==
    LET hits == {i \in 1..Len(ns) :
                    ns[i].kind = "Homeserver" /\ ns[i].id = id /\ ns[i][field] # None}
    IN  IF hits = {} THEN None
        ELSE ns[CHOOSE i \in hits : \A j \in hits : i <= j][field]

\* ---------------------------------------------------------- force layout
\* Positions and velocities are fixed-point numbers, in thousandths of a canvas
\* unit; distances are taken in tenths of a unit. Divisions truncate toward 0.
Milli == 1000

Quot(a, b) == IF a >= 0 THEN a \div b ELSE -((-a) \div b)

RECURSIVE SqrtBetween(_, _, _)
SqrtBetween(n, lo, hi) ==
    IF lo >= hi THEN lo
    ELSE LET mid == (lo + hi + 1) \div 2
         IN  IF mid * mid <= n THEN SqrtBetween(n, mid, hi)
                               ELSE SqrtBetween(n, lo, mid - 1)

\* the integer part of the square root
Sqrt(n) == SqrtBetween(n, 0, 40000)

RECURSIVE SeqSum(_)
SeqSum(s) == IF s = <<>> THEN 0 ELSE Head(s) + SeqSum(Tail(s))

REPULSION_STRENGTH == 5000

\* ATTRACTION_STRENGTH is 0.05: five hundredths
ATTRACTION_STRENGTH == 5

\* DAMPING is 0.85: eighty-five hundredths
DAMPING == 85

MIN_DISTANCE == 50

IDEAL_EDGE_LENGTH == 150

CanvasMinX == 100 * Milli

CanvasMaxX == 1100 * Milli

CanvasMinY == 100 * Milli

CanvasMaxY == 700 * Milli

ForceNode(id, pos) == [ id |-> id, x |-> pos[1], y |-> pos[2], vx |-> 0, vy |-> 0 ]

\* ForceLayout::from_nodes: one ForceNode per node, at rest
from_nodes(ns, ps) == [i \in 1..Len(ns) |-> ForceNode(ns[i].id, ps[i])]

\* sqrt(dx*dx + dy*dy), in tenths of a unit
Distance(a, b) ==
    LET dx == Quot(b.x - a.x, 100)
        dy == Quot(b.y - a.y, 100)
    IN  Sqrt(dx * dx + dy * dy)

\* REPULSION_STRENGTH / (distance * distance), in thousandths, for a distance
\* in tenths
RepulsionForce(distance) == (REPULSION_STRENGTH * 100 * Milli) \div (distance * distance)

Max(a, b) == IF a >= b THEN a ELSE b

Min(a, b) == IF a <= b THEN a ELSE b

\* the repulsion of the pair (a, b) as (fx, fy): a loses it, b gains it
Repulsion(a, b) ==
    LET distance == Max(Distance(a, b), MIN_DISTANCE * 10)
        force == RepulsionForce(distance)
    IN  << Quot(Quot(b.x - a.x, 100) * force, distance),
           Quot(Quot(b.y - a.y, 100) * force, distance) >>

\* variant: an endpoint that is not found is taken to be the last force node
position_or_last(fs, id) ==
    LET hits == {i \in 1..Len(fs) : fs[i].id = id}
    IN  IF hits = {} THEN Len(fs) ELSE CHOOSE i \in hits : \A j \in hits : i <= j

\* position(|n| n.id == id): the first force node of that id, 0 if none
Position(fs, id) ==
    LET hits == {i \in 1..Len(fs) : fs[i].id = id}
    IN  IF hits = {} THEN 0 ELSE CHOOSE i \in hits : \A j \in hits : i <= j

\* the spring of an edge whose endpoints are both found, as (fx, fy): the from
\* node gains it, the to node loses it
Spring(a, b) ==
    LET distance == Max(Distance(a, b), 10)
        displacement == distance - IDEAL_EDGE_LENGTH * 10
        force == displacement * ATTRACTION_STRENGTH
    IN  << Quot(Quot(b.x - a.x, 100) * force, distance),
           Quot(Quot(b.y - a.y, 100) * force, distance) >>

\* the velocity of force node k after both force loops, along axis c (1: x, 2: y)
Velocity(fs, es, k, c) ==
    SeqSum([j \in 1..Len(fs) |->
                IF j > k THEN -Repulsion(fs[k], fs[j])[c]
                ELSE IF j < k THEN Repulsion(fs[j], fs[k])[c]
                ELSE 0])
    + SeqSum([e \in 1..Len(es) |->
                LET from_idx == Position(fs, es[e].from)
                    to_idx == Position(fs, es[e].to)
                IN  IF from_idx = 0 \/ to_idx = 0 THEN 0
                    ELSE (IF from_idx = k THEN Spring(fs[from_idx], fs[to_idx])[c] ELSE 0)
                         - (IF to_idx = k THEN Spring(fs[from_idx], fs[to_idx])[c] ELSE 0)])

\* variant: the position is integrated and left where the velocity took it
integrate_unclamped(v, lo, hi) == v

\* x.max(lo).min(hi)
clamp(v, lo, hi) == Min(Max(v, lo), hi)

\* ForceLayout::tick: repulsion, springs, then damping, integration and clamping
tick(fs, es) ==
    [k \in 1..Len(fs) |->
        LET vx == Quot(Velocity(fs, es, k, 1) * DAMPING, 100)
            vy == Quot(Velocity(fs, es, k, 2) * DAMPING, 100)
        IN  [fs[k] EXCEPT !.vx = vx, !.vy = vy,
                          !.x = clamp(@ + vx, CanvasMinX, CanvasMaxX),
                          !.y = clamp(@ + vy, CanvasMinY, CanvasMaxY)]]

\* ForceLayout::get_positions
get_positions(fs) == [k \in 1..Len(fs) |-> << fs[k].id, fs[k].x, fs[k].y >>]

\* cos and sin of count * 2.4, in ten-thousandths: the angle is turned by 2.4
\* radians (cos -0.7374, sin 0.6755) count times
RECURSIVE Turned(_)
Turned(count) ==
    IF count = 0 THEN << 10000, 0 >>
    ELSE LET p == Turned(count - 1)
         IN  << Quot(p[1] * (-7374) - p[2] * 6755, 10000),
                Quot(p[2] * (-7374) + p[1] * 6755, 10000) >>

\* calculate_initial_position(existing_nodes, None), count = existing_nodes.len()
calculate_initial_position(count) ==
    LET radius == 100 + Min(count * 30, 200)
    IN  << 600 * Milli + Quot(radius * Turned(count)[1], 10),
           400 * Milli + Quot(radius * Turned(count)[2], 10) >>

\* variant: the node found is replaced by a node rebuilt at the new position,
\* whose status is Running
rebuild_node(S, node_id, x, y) ==
    LET hits == {i \in 1..Len(S.nodes) : S.nodes[i].id = node_id}
        first == CHOOSE i \in hits : \A j \in hits : i <= j
    IN  IF hits = {} THEN S
        ELSE [S EXCEPT !.positions[first] = << x, y >>,
                       !.nodes[first].status = "Running"]

\* nodes.write().iter_mut().find(|n| n.id() == node_id), then set_position
set_position(S, node_id, x, y) ==
    LET hits == {i \in 1..Len(S.nodes) : S.nodes[i].id = node_id}
    IN  IF hits = {} THEN S
        ELSE [S EXCEPT !.positions[CHOOSE i \in hits : \A j \in hits : i <= j] = << x, y >>]

RECURSIVE write_back(_, _)
write_back(S, ps) ==
    IF ps = <<>> THEN S
    ELSE write_back(set_position(S, Head(ps)[1], Head(ps)[2], Head(ps)[3]), Tail(ps))

\* the task of the layout effect once its 50 ms sleep is over: build the force
\* nodes from the nodes and edges of that moment, tick once, write back; every
\* write back is a write of nodes, after which the effect runs again
layout_tick(S) ==
    write_back([S EXCEPT !.ticks = @ + 1, !.layout_spawned = Len(S.nodes) > 1],
               get_positions(tick(from_nodes(S.nodes, S.positions), S.edges)))

\* handler move_node: a drag puts the first node of that id at (x, y)
move_node(S, node_id, x, y) == set_position(S, node_id, x, y)

\* ------------------------------------------------------------- event log
\* variant: the id is the position of the entry in the list (log.len())
log_event_positional(S, message, event_type) ==
    [S EXCEPT !.event_log = Append(@, [id |-> Len(S.event_log), message |-> message,
                                       event_type |-> event_type]),
              !.event_counter = @ + 1]

log_event(S, message, event_type) ==
    [S EXCEPT !.event_log = Append(@, [id |-> S.event_counter, message |-> message,
                                       event_type |-> event_type]),
              !.event_counter = @ + 1]

\* ------------------------------------------------------------------ tasks
Task(kind) ==
    [ kind |-> kind, pc |-> "spawned", id |-> None, client_id |-> None,
      homeserver_id |-> None, session |-> 0, issued_at |-> 0,
      scenario |-> 0, op |-> 0, elapsed |-> 0, waited |-> 0,
      dispatched |-> <<>>, results |-> <<>> ]

\* spawn(): the task gets the first free slot of the scheduler
FreeSlot(S) == CHOOSE n \in 1..(Cardinality(DOMAIN S.tasks) + 1) : n \notin DOMAIN S.tasks

Spawn(S, t) == [S EXCEPT !.tasks = MapInsert(@, FreeSlot(S), t)]

Finish(S, tid) ==
    [S EXCEPT !.tasks = [x \in (DOMAIN @) \ {tid} |-> @[x]]]

SetPc(S, tid, pc) == [S EXCEPT !.tasks[tid].pc = pc]

\* manager.lock() while another task keeps the guard: the UI thread never returns
Stuck(S, tid) == [S EXCEPT !.stuck = tid, !.tasks[tid].pc = "lock_wait"]

\* a panic in a future unwinds the UI thread that polls it: nothing runs any more
Panic(S, tid) == [S EXCEPT !.stuck = tid, !.tasks[tid].pc = "panicked"]

LockFree(S) == S.manager_lock = NoTask

Acquire(S, tid) == [S EXCEPT !.manager_lock = tid]

Release(S) == [S EXCEPT !.manager_lock = NoTask]

\* --------------------------------------------- Storage Directory (testnet)
\* HomeserverInfo of the n-th provisioned homeserver
http_url(n) == "http://hs" \o ToString(n)

public_key(n) == "pk" \o ToString(n)

\* Keypair::random(), PubkySession: opaque handles, told apart by a serial
Keypair(n) == "kp" \o ToString(n)

\* the n-th PubkySession handed out by the Storage Directory; connects_done
\* remembers, per session, the client id it was stored under
Session(n) == n

NoSession == 0

\* variant: a missing entry yields a default handle instead of None
lookup_session_or_default(sess_map, client_id) ==
    IF client_id \in DOMAIN sess_map THEN sess_map[client_id] ELSE Session(1)

\* sess_map.get(&client_id).cloned()
lookup_session(sess_map, client_id) ==
    IF client_id \in DOMAIN sess_map THEN sess_map[client_id] ELSE NoSession

\* create_homeserver / connect_client return Err at once when self.testnet is None
testnet_initialized(S) == S.testnet

\* ------------------------------------------------- handler: toggle_network
toggle_network(S) ==
    IF S.is_network_running
    THEN Spawn([S EXCEPT !.is_network_running = FALSE, !.nodes = <<>>, !.positions = <<>>,
                         !.edges = <<>>,
                         !.homeserver_urls = <<>>],
               Task("stop"))
    ELSE [Spawn(S, Task("start")) EXCEPT !.is_network_running = TRUE]

\* spawn(async { if let Ok(mut mgr) = manager.lock() { mgr.start().await } })
start_poll(S, tid) ==
    IF ~LockFree(S) THEN Stuck(S, tid)
    ELSE SetPc(Acquire(S, tid), tid, "awaiting")

start_return(S, tid, ok) ==
    Finish(Release([S EXCEPT !.testnet = IF ok THEN TRUE ELSE @]), tid)

\* spawn(async { if let Ok(mut mgr) = manager.lock() { mgr.stop().await } })
stop_poll(S, tid) ==
    IF ~LockFree(S) THEN Stuck(S, tid)
    ELSE Finish([S EXCEPT !.testnet = FALSE], tid)

\* ------------------------------------------------- handler: add_homeserver
\* variant: the handler without its "Prevent concurrent homeserver creation" return
may_add_homeserver_unguarded(S) == S.is_network_running

\* the early returns of the handler: the network runs and no creation is under way
may_add_homeserver(S) == S.is_network_running /\ ~S.is_creating_homeserver

add_homeserver(S) ==
    LET homeserver_count == CountKind(S.nodes, "Homeserver")
        id == HomeserverName(homeserver_count + 1)
    IN  Spawn([S EXCEPT !.is_creating_homeserver = TRUE,
                        !.positions = Append(@, calculate_initial_position(Len(S.nodes))),
                        !.nodes = Append(@, Homeserver(id, "Starting", None, None))],
              [Task("add_homeserver") EXCEPT !.id = id])

\* the match on create_homeserver()'s result, then creating_flag.set(false)
add_homeserver_return(S, tid, ok) ==
    LET id == S.tasks[tid].id
        i == FirstIndex(S.nodes, "Homeserver", id)
        n == S.provisioned + 1
        S1 == IF ok
              THEN [S EXCEPT !.provisioned = n,
                             !.homeserver_urls = Append(@, http_url(n)),
                             !.nodes = IF i = 0 THEN @
                                       ELSE [@ EXCEPT ![i].http_url = http_url(n),
                                                      ![i].public_key = public_key(n),
                                                      ![i].status = "Running"]]
              ELSE [S EXCEPT !.nodes = IF i = 0 THEN @
                                       ELSE [@ EXCEPT ![i].status = "Error"]]
    IN  Finish(Release([S1 EXCEPT !.is_creating_homeserver = FALSE]), tid)

add_homeserver_poll(S, tid) ==
    IF ~LockFree(S) THEN Stuck(S, tid)
    ELSE IF ~testnet_initialized(S) THEN add_homeserver_return(Acquire(S, tid), tid, FALSE)
    ELSE SetPc(Acquire(S, tid), tid, "awaiting")

\* ----------------------------------------------------- handler: add_client
\* the early returns of the handler: the network runs and no creation is under way
may_add_client(S) == S.is_network_running /\ ~S.is_creating_client

add_client(S) ==
    LET client_count == CountKind(S.nodes, "Client")
        id == ClientName(client_count + 1)
    IN  Spawn([S EXCEPT !.is_creating_client = TRUE,
                        !.positions = Append(@, calculate_initial_position(Len(S.nodes))),
                        !.nodes = Append(@, Client(id, "Starting", ""))],
              [Task("add_client") EXCEPT !.id = id])

\* create_client() has no suspension point and always returns Ok
add_client_poll(S, tid) ==
    IF ~LockFree(S) THEN Stuck(S, tid)
    ELSE LET id == S.tasks[tid].id
             i == FirstIndex(S.nodes, "Client", id)
             n == S.keys_made + 1
         IN  Finish([S EXCEPT !.keys_made = n,
                              !.client_keypairs = MapInsert(@, id, Keypair(n)),
                              !.nodes = IF i = 0 THEN @
                                        ELSE [@ EXCEPT ![i].public_key = public_key(n),
                                                       ![i].status = "Running"],
                              !.is_creating_client = FALSE],
                    tid)

\* ---------------------------------------------------- handler: remove_node
remove_node(S, id) ==
    [S EXCEPT !.nodes = Retain(@, id),
              !.positions = [k \in 1..Len(Retain(S.nodes, id)) |->
                                S.positions[Kept(S.nodes, id)[k]]]]

\* ----------------------------------------------------- handler: write_data
write_data(S, client_id) == Spawn(S, [Task("write") EXCEPT !.client_id = client_id])

write_data_poll(S, tid) ==
    LET client_id == S.tasks[tid].client_id
        S1 == log_event([S EXCEPT !.is_writing = TRUE], "Writing data", "Info")
        session == lookup_session(S.client_sessions, client_id)
    IN  IF session # NoSession
        THEN IF ~LockFree(S1) THEN Stuck(S1, tid)
             ELSE [SetPc(Acquire(S1, tid), tid, "awaiting")
                      EXCEPT !.tasks[tid].session = session,
                             !.tasks[tid].issued_at = Len(S.connects_done)]
        ELSE Finish([log_event(S1, "Client not connected", "Error")
                        EXCEPT !.is_writing = FALSE], tid)

write_data_return(S, tid, ok) ==
    LET S1 == IF ok THEN log_event(S, "Wrote data", "Success")
              ELSE log_event(S, "Write failed", "Error")
    IN  Finish(Release([S1 EXCEPT !.is_writing = FALSE]), tid)

\* ------------------------------------------------------ handler: read_data
read_data(S, client_id) == Spawn(S, [Task("read") EXCEPT !.client_id = client_id])

read_data_poll(S, tid) ==
    LET client_id == S.tasks[tid].client_id
        S1 == log_event([S EXCEPT !.is_reading = TRUE], "Reading data", "Info")
        session == lookup_session(S.client_sessions, client_id)
    IN  IF session # NoSession
        THEN IF ~LockFree(S1) THEN Stuck(S1, tid)
             ELSE [SetPc(Acquire(S1, tid), tid, "awaiting")
                      EXCEPT !.tasks[tid].session = session,
                             !.tasks[tid].issued_at = Len(S.connects_done)]
        ELSE Finish([log_event(S1, "Client not connected", "Error")
                        EXCEPT !.is_reading = FALSE], tid)

read_data_return(S, tid, ok) ==
    LET S1 == IF ok THEN log_event(log_event(S, "Read data", "Success"), "Content", "Info")
              ELSE log_event(S, "Read failed", "Error")
    IN  Finish(Release([S1 EXCEPT !.is_reading = FALSE]), tid)

\* ------------------------------------------------- handler: connect_client
connect_client(S, client_id, homeserver_id) ==
    Spawn(S, [Task("connect") EXCEPT !.client_id = client_id,
                                     !.homeserver_id = homeserver_id])

\* variant: entry(client_id).or_insert(session) keeps a session already stored
connected_keeping_first(S, client_id, homeserver_id) ==
    LET i == FirstIndex(S.nodes, "Client", client_id)
        n == Len(S.connects_done) + 1
    IN  [S EXCEPT !.connects_done = Append(@, client_id),
                  !.client_sessions = IF client_id \in DOMAIN @ THEN @
                                      ELSE MapInsert(@, client_id, Session(n)),
                  !.nodes = IF i = 0 THEN @
                            ELSE [@ EXCEPT ![i].connected_homeserver = homeserver_id],
                  !.edges = Append(@, Edge(client_id, homeserver_id))]

\* Ok(session): store the session, set connected_homeserver, push the edge
connected(S, client_id, homeserver_id) ==
    LET i == FirstIndex(S.nodes, "Client", client_id)
        n == Len(S.connects_done) + 1
    IN  [S EXCEPT !.connects_done = Append(@, client_id),
                  !.client_sessions = MapInsert(@, client_id, Session(n)),
                  !.nodes = IF i = 0 THEN @
                            ELSE [@ EXCEPT ![i].connected_homeserver = homeserver_id],
                  !.edges = Append(@, Edge(client_id, homeserver_id))]

connect_client_return(S, tid, ok) ==
    LET t == S.tasks[tid]
        S1 == IF ok THEN connected(S, t.client_id, t.homeserver_id) ELSE S
    IN  Finish(Release(S1), tid)

connect_client_poll(S, tid) ==
    LET t == S.tasks[tid]
        keypair == MapGet(S.client_keypairs, t.client_id)
        homeserver_pubkey == FindHomeserverField(S.nodes, t.homeserver_id, "public_key")
    IN  IF keypair # None /\ homeserver_pubkey # None
        THEN IF ~LockFree(S) THEN Stuck(S, tid)
             ELSE IF ~testnet_initialized(S)
                  THEN connect_client_return(Acquire(S, tid), tid, FALSE)
                  ELSE SetPc(Acquire(S, tid), tid, "awaiting")
        ELSE Finish(S, tid)

\* ------------------------------------------------------- handler: on_reset
on_reset(S) ==
    [S EXCEPT !.nodes = <<>>, !.positions = <<>>,
              !.edges = <<>>, !.homeserver_urls = <<>>,
              !.client_keypairs = EmptyMap, !.client_sessions = EmptyMap,
              !.event_log = <<>>, !.is_playing_scenario = FALSE]


\* ---------------------------------------------------------- Scenario model
\* at_seconds and timeout_seconds are kept in hundredths of a second. An f64 that
\* is not the double nearest to a decimal of hundredths (a sum such as
\* 2.5 + 0.3 + 0.3 = 3.0999999999999996) lies at_ulps units in the last place
\* away from it. type is the variant of the action under its serde name.
Operation(at_seconds, type) ==
    [ at_seconds |-> at_seconds, at_ulps |-> 0, type |-> type, id |-> None,
      client_id |-> None, homeserver_id |-> None, path |-> None, content |-> None,
      timeout_seconds |-> 0 ]

CreateHomeserver(at, id) == [Operation(at, "create_homeserver") EXCEPT !.id = id]

CreateClient(at, id) == [Operation(at, "create_client") EXCEPT !.id = id]

ConnectClient(at, client_id, homeserver_id) ==
    [Operation(at, "connect_client") EXCEPT !.client_id = client_id,
                                            !.homeserver_id = homeserver_id]

WriteData(at, client_id, path, content) ==
    [Operation(at, "write_data") EXCEPT !.client_id = client_id, !.path = path,
                                        !.content = content]

ReadData(at, client_id, path) ==
    [Operation(at, "read_data") EXCEPT !.client_id = client_id, !.path = path]

WaitForHomeserver(at, homeserver_id, timeout_seconds) ==
    [Operation(at, "wait_for_homeserver") EXCEPT !.homeserver_id = homeserver_id,
                                                 !.timeout_seconds = timeout_seconds]

\* a scenario file whose offsets do not grow: operations that are due when the
\* player reaches them, one at 0 and one before the start
late_file ==
    [ name |-> "Late",
      description |-> "",
      operations |->
        << CreateHomeserver(100, HomeserverName(1)),
           CreateClient(50, ClientName(1)),
           ConnectClient(0, ClientName(1), HomeserverName(1)),
           CreateClient(-100, ClientName(2)),
           CreateClient(200, ClientName(3)) >> ]

\* "Rate Limiting" of built_in_scenarios(), with RLClients clients (source: 5),
\* RLWrites writes each (source: 10) and a wait of two polls (source: 5.0 s);
\* the offsets are computed as the source computes them.
rate_limiting ==
    LET created == 200 + 5 * RLClients + 50
        write_start_time == created + RLClients + 50
    IN  [ name |-> "Rate Limiting",
          description |-> "Creates 1 homeserver with clients writing rapidly",
          operations |->
            << CreateHomeserver(0, HomeserverName(1)),
               WaitForHomeserver(100, HomeserverName(1), 20) >>
            \o [i \in 1..RLClients |-> CreateClient(200 + 5 * (i - 1), ClientName(i))]
            \o [i \in 1..RLClients |->
                    ConnectClient(created + (i - 1), ClientName(i), HomeserverName(1))]
            \o [k \in 1..(RLClients * RLWrites) |->
                    LET i == ((k - 1) \div RLWrites) + 1
                        j == ((k - 1) % RLWrites) + 1
                    IN  WriteData(write_start_time + j * 50 + i * 2, ClientName(i),
                                  "/pub/publar/rate_test_" \o ToString(j) \o ".txt",
                                  "Rate test data")] ]

\* a scenario file of ~/.publar/scenarios: ties, a repeated connect, a read
reconnect_file ==
    [ name |-> "Reconnect",
      description |-> "",
      operations |->
        << CreateClient(0, ClientName(1)),
           CreateHomeserver(0, HomeserverName(1)),
           ConnectClient(100, ClientName(1), HomeserverName(1)),
           ConnectClient(100, ClientName(1), HomeserverName(1)),
           WriteData(200, ClientName(1), "/pub/publar/file_1.txt", "Data"),
           ReadData(200, ClientName(1), "/pub/publar/file_1.txt") >> ]

\* ------------------------------------------------------ scenario files
\* scenario_files holds the JSON documents that to_file has written into the
\* scenarios directory since the launch. A document is kept as the value it
\* denotes: strings, numbers, arrays and objects (functions from keys).
JsonString(s) == [ json |-> "string", value |-> s ]

RECURSIVE DecimalDigits(_)
DecimalDigits(n) == IF n < 10 THEN 1 ELSE 1 + DecimalDigits(n \div 10)

\* an f64 is written as the shortest decimal that identifies it: the hundredths
\* themselves for the double nearest to them, seventeen significant digits for
\* a double that lies some units in the last place away
format_f64(hundredths, ulps) ==
    [ json |-> "number", negative |-> hundredths < 0,
      whole |-> (IF hundredths < 0 THEN -hundredths ELSE hundredths) \div 100,
      fraction |-> (IF hundredths < 0 THEN -hundredths ELSE hundredths) % 100,
      last_place |-> ulps,
      significant_digits |->
          IF ulps = 0
          THEN DecimalDigits(IF hundredths < 0 THEN -hundredths ELSE hundredths)
          ELSE 17 ]

\* the f64 values a number may be read as, as (hundredths, ulps). serde_json
\* reads the digits into a u64, converts it to f64 and divides once by a power
\* of ten: up to fifteen digits this is exact; a longer significand is rounded
\* twice and the result can lie one unit in the last place off, unless
\* serde_json is built with float_roundtrip.
parse_f64(n) ==
    LET hundredths == (IF n.negative THEN -1 ELSE 1) * (n.whole * 100 + n.fraction)
    IN  IF n.significant_digits <= 15
        THEN { << hundredths, n.last_place >> }
        ELSE { << hundredths, n.last_place + d >> : d \in {-1, 0, 1} }

\* the fields of each variant of Action, in declaration order
ActionFields ==
    [ create_homeserver |-> << "id" >>,
      create_client |-> << "id" >>,
      connect_client |-> << "client_id", "homeserver_id" >>,
      write_data |-> << "client_id", "path", "content" >>,
      read_data |-> << "client_id", "path" >>,
      wait_for_homeserver |-> << "homeserver_id", "timeout_seconds" >> ]

Range(s) == {s[i] : i \in 1..Len(s)}

\* Serialize for Operation: at_seconds, then the action flattened into the same
\* object, its variant under the key "type"
operation_to_json(op) ==
    [ k \in {"at_seconds", "type"} \cup Range(ActionFields[op.type]) |->
        IF k = "at_seconds" THEN format_f64(op.at_seconds, op.at_ulps)
        ELSE IF k = "type" THEN JsonString(op.type)
        ELSE IF k = "timeout_seconds" THEN format_f64(op.timeout_seconds, 0)
        ELSE JsonString(op[k]) ]

\* Scenario::to_json
to_json(s) ==
    [ name |-> JsonString(s.name),
      description |-> JsonString(s.description),
      operations |-> [i \in 1..Len(s.operations) |-> operation_to_json(s.operations[i])] ]

IsJsonString(v) == DOMAIN v = {"json", "value"} /\ v.json = "string"

IsJsonNumber(v) == "json" \in DOMAIN v /\ v.json = "number"

\* an object an Operation can be read from: at_seconds, a known "type" and
\* every field of that variant, each of its type
OperationReadable(o) ==
    /\ {"at_seconds", "type"} \subseteq DOMAIN o
    /\ IsJsonNumber(o.at_seconds)
    /\ IsJsonString(o.type) /\ o.type.value \in DOMAIN ActionFields
    /\ \A k \in Range(ActionFields[o.type.value]) :
          /\ k \in DOMAIN o
          /\ IF k = "timeout_seconds" THEN IsJsonNumber(o[k]) ELSE IsJsonString(o[k])

\* Deserialize for Operation: the operations the object may be read as
operations_from_json(o) ==
    { [ at_seconds |-> at[1], at_ulps |-> at[2], type |-> o.type.value,
        id |-> IF "id" \in DOMAIN o THEN o.id.value ELSE None,
        client_id |-> IF "client_id" \in DOMAIN o THEN o.client_id.value ELSE None,
        homeserver_id |-> IF "homeserver_id" \in DOMAIN o THEN o.homeserver_id.value
                          ELSE None,
        path |-> IF "path" \in DOMAIN o THEN o.path.value ELSE None,
        content |-> IF "content" \in DOMAIN o THEN o.content.value ELSE None,
        timeout_seconds |-> timeout[1] ] :
      at \in parse_f64(o.at_seconds),
      timeout \in IF "timeout_seconds" \in DOMAIN o THEN parse_f64(o.timeout_seconds)
                  ELSE { << 0, 0 >> } }

RECURSIVE operation_lists(_)
operation_lists(os) ==
    IF os = <<>> THEN { <<>> }
    ELSE { << op >> \o rest : op \in operations_from_json(Head(os)),
                              rest \in operation_lists(Tail(os)) }

\* Scenario::from_json: the results it may return, Err or Ok(Scenario)
from_json(doc) ==
    IF /\ DOMAIN doc = {"name", "description", "operations"}
       /\ IsJsonString(doc.name) /\ IsJsonString(doc.description)
       /\ \A i \in 1..Len(doc.operations) : OperationReadable(doc.operations[i])
    THEN { [ ok |-> TRUE,
             scenario |-> [ name |-> doc.name.value,
                            description |-> doc.description.value,
                            operations |-> ops ] ] :
           ops \in operation_lists(doc.operations) }
    ELSE { [ ok |-> FALSE ] }

\* Scenario::to_file
to_file(S, s) == [S EXCEPT !.scenario_files = Append(@, to_json(s))]

\* the lists load_from_directory may return for these files: each file that
\* from_file reads is pushed, the others are skipped
RECURSIVE load_from_directory(_)
load_from_directory(files) ==
    IF files = <<>> THEN { <<>> }
    ELSE { (IF r.ok THEN << r.scenario >> ELSE <<>>) \o rest :
             r \in from_json(Head(files)), rest \in load_from_directory(Tail(files)) }

\* --------------------------------------------------------- Scenario Player
RECURSIVE run_scenario(_, _)
RECURSIVE dispatch(_, _)

CurrentOp(S, tid) ==
    S.scenarios[S.tasks[tid].scenario].operations[S.tasks[tid].op]

\* variant: a failed operation ends the run ("return" in the Err arm)
next_op_aborting(S, tid, outcome) ==
    IF outcome = "failed"
    THEN [S EXCEPT !.is_playing_scenario = FALSE,
                   !.tasks[tid].pc = "completed",
                   !.tasks[tid].op = @ + 1,
                   !.tasks[tid].results = Append(@, outcome)]
    ELSE run_scenario([S EXCEPT !.tasks[tid].op = @ + 1,
                                !.tasks[tid].pc = "loop",
                                !.tasks[tid].session = NoSession,
                                !.tasks[tid].waited = 0,
                                !.tasks[tid].results = Append(@, outcome)], tid)

\* the end of one iteration of "for op in scenario.operations"
next_op(S, tid, outcome) ==
    run_scenario([S EXCEPT !.tasks[tid].op = @ + 1,
                           !.tasks[tid].pc = "loop",
                           !.tasks[tid].session = NoSession,
                           !.tasks[tid].waited = 0,
                           !.tasks[tid].results = Append(@, outcome)], tid)

\* Action::CreateHomeserver, after mgr.create_homeserver().await
scenario_create_homeserver_return(S, tid, ok) ==
    LET id == CurrentOp(S, tid).id
        n == S.provisioned + 1
    IN  IF ok
        THEN next_op(Release(log_event(
                 [S EXCEPT !.provisioned = n,
                           !.homeserver_urls = Append(@, http_url(n)),
                           !.positions = Append(@, calculate_initial_position(Len(S.nodes))),
                           !.nodes = Append(@, Homeserver(id, "Running", http_url(n),
                                                          public_key(n)))],
                 "Created homeserver", "Success")), tid, "ok")
        ELSE next_op(Release(log_event(S, "Failed to create homeserver", "Error")),
                     tid, "failed")

\* variant: the client is created in a future of its own (spawn) and the loop
\* goes on to the next operation without waiting for it
scenario_create_client_detached(S, tid) ==
    LET id == CurrentOp(S, tid).id
        n == S.keys_made + 1
    IN  run_scenario([log_event(
            [S EXCEPT !.keys_made = n,
                      !.client_keypairs = MapInsert(@, id, Keypair(n)),
                      !.positions = Append(@, calculate_initial_position(Len(S.nodes))),
                      !.nodes = Append(@, Client(id, "Running", public_key(n)))],
            "Created client", "Success")
                      EXCEPT !.tasks[tid].op = @ + 1, !.tasks[tid].pc = "loop"], tid)

\* Action::CreateClient: create_client() returns Ok without suspending
scenario_create_client(S, tid) ==
    LET id == CurrentOp(S, tid).id
        n == S.keys_made + 1
    IN  next_op(log_event(
            [S EXCEPT !.keys_made = n,
                      !.client_keypairs = MapInsert(@, id, Keypair(n)),
                      !.positions = Append(@, calculate_initial_position(Len(S.nodes))),
                      !.nodes = Append(@, Client(id, "Running", public_key(n)))],
            "Created client", "Success"), tid, "ok")

\* variant: the edge is pushed before the result of the exchange is matched
scenario_connect_client_return_eager(S, tid, ok) ==
    LET op == CurrentOp(S, tid)
    IN  IF ok
        THEN next_op(Release(log_event(connected(S, op.client_id, op.homeserver_id),
                                       "Connected", "Success")), tid, "ok")
        ELSE next_op(Release(log_event(
                 [S EXCEPT !.edges = Append(@, Edge(op.client_id, op.homeserver_id))],
                 "Failed to connect client", "Error")), tid, "failed")

\* Action::ConnectClient, after mgr.connect_client().await
scenario_connect_client_return(S, tid, ok) ==
    LET op == CurrentOp(S, tid)
    IN  IF ok
        THEN next_op(Release(log_event(connected(S, op.client_id, op.homeserver_id),
                                       "Connected", "Success")), tid, "ok")
        ELSE next_op(Release(log_event(S, "Failed to connect client", "Error")),
                     tid, "failed")

\* Action::WriteData, after mgr.write_to_homeserver().await
scenario_write_data_return(S, tid, ok) ==
    IF ok THEN next_op(Release(log_event(S, "Wrote data", "Success")), tid, "ok")
    ELSE next_op(Release(log_event(S, "Write failed", "Error")), tid, "failed")

\* Action::ReadData, after mgr.read_from_homeserver().await
scenario_read_data_return(S, tid, ok) ==
    IF ok THEN next_op(Release(log_event(S, "Read data", "Success")), tid, "ok")
    ELSE next_op(Release(log_event(S, "Read failed", "Error")), tid, "failed")

scenario_return(S, tid, ok) ==
    LET type == CurrentOp(S, tid).type
    IN  CASE type = "create_homeserver" -> scenario_create_homeserver_return(S, tid, ok)
          [] type = "connect_client" -> scenario_connect_client_return(S, tid, ok)
          [] type = "write_data" -> scenario_write_data_return(S, tid, ok)
          [] type = "read_data" -> scenario_read_data_return(S, tid, ok)

\* Action::WaitForHomeserver: "while start_wait.elapsed() < timeout", then the verdict
wait_loop(S, tid) ==
    IF S.tasks[tid].waited < CurrentOp(S, tid).timeout_seconds
    THEN SetPc(S, tid, "probing")
    ELSE next_op(log_event(S, "not ready (timeout)", "Error"), tid, "failed")

\* reqwest::get(&url).await came back
probe_return(S, tid, ready) ==
    IF ready THEN next_op(log_event(S, "is ready", "Success"), tid, "ok")
    ELSE SetPc(S, tid, "poll_sleep")

\* "match op.action": runs until the task suspends, is stuck, or the run ends
dispatch(S, tid) ==
    LET S0 == [S EXCEPT !.tasks[tid].dispatched = Append(@, S.tasks[tid].op)]
        op == CurrentOp(S, tid)
        locked == SetPc(Acquire(S0, tid), tid, "awaiting")
    IN  CASE op.type = "create_homeserver" ->
                IF ~LockFree(S0) THEN Stuck(S0, tid)
                ELSE IF ~testnet_initialized(S0)
                     THEN scenario_create_homeserver_return(Acquire(S0, tid), tid, FALSE)
                     ELSE locked
          [] op.type = "create_client" ->
                IF ~LockFree(S0) THEN Stuck(S0, tid)
                ELSE scenario_create_client(S0, tid)
          [] op.type = "connect_client" ->
                LET homeserver_pubkey ==
                        FindHomeserverField(S0.nodes, op.homeserver_id, "public_key")
                    keypair == MapGet(S0.client_keypairs, op.client_id)
                IN  IF homeserver_pubkey # None /\ keypair # None
                    THEN IF ~LockFree(S0) THEN Stuck(S0, tid)
                         ELSE IF ~testnet_initialized(S0)
                              THEN scenario_connect_client_return(Acquire(S0, tid), tid, FALSE)
                              ELSE locked
                    ELSE next_op(S0, tid, "failed")
          [] op.type \in {"write_data", "read_data"} ->
                LET session == lookup_session(S0.client_sessions, op.client_id)
                IN  IF session # NoSession
                    THEN IF ~LockFree(S0) THEN Stuck(S0, tid)
                         ELSE [locked EXCEPT !.tasks[tid].session = session,
                                             !.tasks[tid].issued_at = Len(S0.connects_done)]
                    ELSE next_op(S0, tid, "failed")
          [] op.type = "wait_for_homeserver" ->
                LET url == FindHomeserverField(S0.nodes, op.homeserver_id, "http_url")
                IN  IF url # None
                    THEN wait_loop(log_event(S0, "Waiting for homeserver", "Info"), tid)
                    ELSE next_op(log_event(S0, "Homeserver not found", "Error"),
                                 tid, "failed")

\* variant: the loop dispatches without "if target_time > elapsed { sleep }"
run_scenario_eager(S, tid) ==
    LET t == S.tasks[tid]
        ops == S.scenarios[t.scenario].operations
    IN  IF t.op > Len(ops)
        THEN [S EXCEPT !.is_playing_scenario = FALSE, !.tasks[tid].pc = "completed"]
        ELSE dispatch(S, tid)

\* "for op in scenario.operations": sleep until the offset, dispatch, go on;
\* after the last operation playing_flag.set(false). Duration::from_secs_f64
\* panics on a negative offset.
run_scenario(S, tid) ==
    LET t == S.tasks[tid]
        ops == S.scenarios[t.scenario].operations
    IN  IF t.op > Len(ops)
        THEN [S EXCEPT !.is_playing_scenario = FALSE, !.tasks[tid].pc = "completed"]
        ELSE IF ops[t.op].at_seconds < 0
        THEN Panic(S, tid)
        ELSE IF ops[t.op].at_seconds > t.elapsed
             THEN SetPc(S, tid, "sleeping")
             ELSE dispatch(S, tid)

\* ----------------------------------------------- handler: on_play_scenario
on_play_scenario(S, idx) ==
    Spawn([S EXCEPT !.is_playing_scenario = TRUE,
                    !.nodes = <<>>, !.positions = <<>>,
                    !.edges = <<>>, !.homeserver_urls = <<>>,
                    !.client_keypairs = EmptyMap, !.client_sessions = EmptyMap],
          [Task("scenario") EXCEPT !.scenario = idx, !.op = 1])


Init ==
    /\ is_network_running = FALSE
    /\ nodes = <<>>
    /\ edges = <<>>
    /\ client_keypairs = EmptyMap
    /\ client_sessions = EmptyMap
    /\ testnet = FALSE
    /\ manager_lock = NoTask
    /\ homeserver_urls = <<>>
    /\ is_creating_homeserver = FALSE
    /\ is_creating_client = FALSE
    /\ is_playing_scenario = FALSE
    /\ event_log = <<>>
    /\ event_counter = 0
    /\ is_writing = FALSE
    /\ is_reading = FALSE
    /\ tasks = EmptyMap
    /\ stuck = NoTask
    /\ provisioned = 0
    /\ keys_made = 0
    /\ connects_done = <<>>
    /\ scenarios = <<reconnect_file>>
    /\ budget = MaxEvents
    /\ positions = <<>>
    /\ ticks = 0
    /\ layout_spawned = FALSE
    /\ scenario_files = <<>>

\* ================================================================ actions
Running == stuck = NoTask

TaskAt(tid, kind, pc) == tasks[tid].kind = kind /\ tasks[tid].pc = pc

\* one more UI event is handled: the handler h runs on the state
MayClick == budget > 0

Click(S) == Apply([S EXCEPT !.budget = @ - 1])

\* the sidebar shows the node found first under the selected id
Shown(id) ==
    LET hits == {i \in 1..Len(nodes) : nodes[i].id = id}
    IN  IF hits = {} THEN 0 ELSE CHOOSE i \in hits : \A j \in hits : i <= j

ToggleNetwork == Running /\ MayClick /\ Click(toggle_network(St))

StartTask == \E tid \in DOMAIN tasks :
    Running /\ TaskAt(tid, "start", "spawned") /\ Apply(start_poll(St, tid))

StartReturns == \E tid \in DOMAIN tasks, ok \in BOOLEAN :
    Running /\ TaskAt(tid, "start", "awaiting") /\ Apply(start_return(St, tid, ok))

StopTask == \E tid \in DOMAIN tasks :
    Running /\ TaskAt(tid, "stop", "spawned") /\ Apply(stop_poll(St, tid))

AddHomeserver ==
    /\ Running /\ MayClick /\ Len(nodes) < MaxNodes
    /\ may_add_homeserver(St)
    /\ Click(add_homeserver(St))

AddHomeserverTask == \E tid \in DOMAIN tasks :
    Running /\ TaskAt(tid, "add_homeserver", "spawned") /\ Apply(add_homeserver_poll(St, tid))

AddHomeserverReturns == \E tid \in DOMAIN tasks, ok \in BOOLEAN :
    /\ Running /\ TaskAt(tid, "add_homeserver", "awaiting")
    /\ Apply(add_homeserver_return(St, tid, ok))

AddClient ==
    /\ Running /\ MayClick /\ Len(nodes) < MaxNodes
    /\ may_add_client(St)
    /\ Click(add_client(St))

AddClientTask == \E tid \in DOMAIN tasks :
    Running /\ TaskAt(tid, "add_client", "spawned") /\ Apply(add_client_poll(St, tid))

\* "Remove" of the sidebar, on the selected node
RemoveNode == \E id \in NodeIds(nodes) :
    Running /\ MayClick /\ Click(remove_node(St, id))

\* "Connect" of the sidebar: shown while the client is not connected
ConnectRequest == \E client_id \in NodeIds(nodes), homeserver_id \in NodeIds(nodes) :
    /\ Running /\ MayClick
    /\ nodes[Shown(client_id)].kind = "Client"
    /\ nodes[Shown(client_id)].connected_homeserver = None
    /\ \E i \in 1..Len(nodes) : nodes[i].kind = "Homeserver" /\ nodes[i].id = homeserver_id
    /\ Click(connect_client(St, client_id, homeserver_id))

ConnectTask == \E tid \in DOMAIN tasks :
    Running /\ TaskAt(tid, "connect", "spawned") /\ Apply(connect_client_poll(St, tid))

ConnectReturns == \E tid \in DOMAIN tasks, ok \in BOOLEAN :
    /\ Running /\ TaskAt(tid, "connect", "awaiting")
    /\ Apply(connect_client_return(St, tid, ok))

\* "Write" of the sidebar: shown for a connected client, disabled while is_writing
WriteRequest == \E client_id \in NodeIds(nodes) :
    /\ Running /\ MayClick
    /\ nodes[Shown(client_id)].kind = "Client"
    /\ nodes[Shown(client_id)].connected_homeserver # None
    /\ ~is_writing
    /\ Click(write_data(St, client_id))

WriteTask == \E tid \in DOMAIN tasks :
    Running /\ TaskAt(tid, "write", "spawned") /\ Apply(write_data_poll(St, tid))

WriteReturns == \E tid \in DOMAIN tasks, ok \in BOOLEAN :
    Running /\ TaskAt(tid, "write", "awaiting") /\ Apply(write_data_return(St, tid, ok))

ReadRequest == \E client_id \in NodeIds(nodes) :
    /\ Running /\ MayClick
    /\ nodes[Shown(client_id)].kind = "Client"
    /\ nodes[Shown(client_id)].connected_homeserver # None
    /\ ~is_reading
    /\ Click(read_data(St, client_id))

ReadTask == \E tid \in DOMAIN tasks :
    Running /\ TaskAt(tid, "read", "spawned") /\ Apply(read_data_poll(St, tid))

ReadReturns == \E tid \in DOMAIN tasks, ok \in BOOLEAN :
    Running /\ TaskAt(tid, "read", "awaiting") /\ Apply(read_data_return(St, tid, ok))

\* the play button: shown while the network runs, enabled while not playing
PlayScenario == \E idx \in 1..Len(scenarios) :
    /\ Running /\ MayClick
    /\ is_network_running /\ ~is_playing_scenario
    /\ Click(on_play_scenario(St, idx))

\* first poll of the player: start_time = Instant::now(), then the loop
ScenarioStart == \E tid \in DOMAIN tasks :
    Running /\ TaskAt(tid, "scenario", "spawned") /\ Apply(run_scenario(St, tid))

\* tokio::time::sleep(target_time - elapsed) is over: the offset has been reached
ScenarioWake == \E tid \in DOMAIN tasks :
    /\ Running /\ TaskAt(tid, "scenario", "sleeping")
    /\ Apply(dispatch([St EXCEPT !.tasks[tid].elapsed = CurrentOp(St, tid).at_seconds], tid))

ScenarioReturns == \E tid \in DOMAIN tasks, ok \in BOOLEAN :
    Running /\ TaskAt(tid, "scenario", "awaiting") /\ Apply(scenario_return(St, tid, ok))

ProbeReturns == \E tid \in DOMAIN tasks, ready \in BOOLEAN :
    Running /\ TaskAt(tid, "scenario", "probing") /\ Apply(probe_return(St, tid, ready))

\* tokio::time::sleep(100 ms) is over
PollWake == \E tid \in DOMAIN tasks :
    /\ Running /\ TaskAt(tid, "scenario", "poll_sleep")
    /\ Apply(wait_loop([St EXCEPT !.tasks[tid].waited = @ + PollInterval], tid))

\* the probe itself takes time: reqwest::get has no timeout of its own, and
\* start_wait.elapsed() is read again only after the probe and the poll sleep
ProbeTakesTime == \E tid \in DOMAIN tasks :
    /\ Running /\ TaskAt(tid, "scenario", "probing")
    /\ tasks[tid].waited < CurrentOp(St, tid).timeout_seconds + MaxOverrun * PollInterval
    /\ Apply([St EXCEPT !.tasks[tid].waited = @ + PollInterval])

\* the reset button: shown while the network runs
Reset == Running /\ MayClick /\ is_network_running /\ Click(on_reset(St))

\* ---------------------------------------------------------- specifications
\* the user's own actions, from construction, without the Scenario Player
Next ==
    \/ ToggleNetwork \/ StartTask \/ StartReturns \/ StopTask
    \/ AddHomeserver \/ AddHomeserverTask \/ AddHomeserverReturns
    \/ AddClient \/ AddClientTask
    \/ RemoveNode
    \/ ConnectRequest \/ ConnectTask \/ ConnectReturns
    \/ WriteRequest \/ WriteTask \/ WriteReturns
    \/ ReadRequest \/ ReadTask \/ ReadReturns
    \/ Reset

Spec == Init /\ [][Next]_vars

\* the network has been started (toggle_network, then start() returned Ok or Err)
\* and nothing else has happened; scenarios holds the files of the directory
Started(scenario_list, clicks) ==
    /\ is_network_running = TRUE
    /\ nodes = <<>>
    /\ edges = <<>>
    /\ client_keypairs = EmptyMap
    /\ client_sessions = EmptyMap
    /\ testnet \in BOOLEAN
    /\ manager_lock = NoTask
    /\ homeserver_urls = <<>>
    /\ is_creating_homeserver = FALSE
    /\ is_creating_client = FALSE
    /\ is_playing_scenario = FALSE
    /\ event_log = <<>>
    /\ event_counter = 0
    /\ is_writing = FALSE
    /\ is_reading = FALSE
    /\ tasks = EmptyMap
    /\ stuck = NoTask
    /\ provisioned = 0
    /\ keys_made = 0
    /\ connects_done = <<>>
    /\ scenarios = scenario_list
    /\ budget = clicks
    /\ positions = <<>>
    /\ ticks = 0
    /\ layout_spawned = FALSE
    /\ scenario_files = <<>>

InitPlay == Started(<<reconnect_file>>, MaxPlayEvents)

\* the Scenario Player together with the user's actions
NextPlay ==
    \/ ToggleNetwork \/ StartTask \/ StartReturns \/ StopTask
    \/ AddHomeserver \/ AddHomeserverTask \/ AddHomeserverReturns
    \/ AddClient \/ AddClientTask
    \/ RemoveNode
    \/ ConnectRequest \/ ConnectTask \/ ConnectReturns
    \/ WriteRequest \/ WriteTask \/ WriteReturns
    \/ ReadRequest \/ ReadTask \/ ReadReturns
    \/ PlayScenario \/ ScenarioStart \/ ScenarioWake \/ ScenarioReturns
    \/ Reset

SpecPlay == InitPlay /\ [][NextPlay]_vars

\* the hardcoded list of built_in_scenarios() (no file in the directory), played alone
InitBuiltIn == Started(<<rate_limiting>>, 1)

NextBuiltIn ==
    \/ PlayScenario \/ ScenarioStart \/ ScenarioWake \/ ScenarioReturns
    \/ ProbeReturns \/ PollWake \/ ProbeTakesTime

SpecBuiltIn == InitBuiltIn /\ [][NextBuiltIn]_vars

\* ------------------------------------------ playing a file with late offsets
InitLate == Started(<<late_file>>, MaxPlayEvents)

NextLate ==
    \/ ToggleNetwork \/ StartTask \/ StartReturns \/ StopTask
    \/ AddHomeserver \/ AddHomeserverTask \/ AddHomeserverReturns
    \/ AddClient \/ AddClientTask
    \/ RemoveNode
    \/ PlayScenario \/ ScenarioStart \/ ScenarioWake \/ ScenarioReturns
    \/ Reset

SpecLate == InitLate /\ [][NextLate]_vars

\* ----------------------------------------------------- layout and dragging
MaxTicks == 2

MaxLayoutEvents == 4

\* where a drag may drop a node: left of the canvas, beyond its lower right
\* corner, inside it, and one unit beside the place of the first node
DragTargets == { << -50 * Milli, 400 * Milli >>, << 1300 * Milli, 900 * Milli >>,
                 << 450 * Milli, 300 * Milli >>, << 701 * Milli, 400 * Milli >> }

LayoutTick ==
    /\ Running /\ layout_spawned /\ ticks < MaxTicks
    /\ Apply(layout_tick(St))

MoveNode == \E id \in NodeIds(nodes), p \in DragTargets :
    Running /\ MayClick /\ Click(move_node(St, id, p[1], p[2]))

InitLayout == Started(<<>>, MaxLayoutEvents)

NextLayout ==
    \/ AddHomeserver \/ AddHomeserverTask \/ AddHomeserverReturns
    \/ AddClient \/ AddClientTask
    \/ RemoveNode
    \/ ConnectRequest \/ ConnectTask \/ ConnectReturns
    \/ MoveNode
    \/ LayoutTick

SpecLayout == InitLayout /\ [][NextLayout]_vars

\* ------------------------------------------------ play, reset, play again
MaxReplayEvents == 3

InitReplay == Started(<<reconnect_file>>, MaxReplayEvents)

NextReplay ==
    \/ PlayScenario \/ ScenarioStart \/ ScenarioWake \/ ScenarioReturns
    \/ Reset

SpecReplay == InitReplay /\ [][NextReplay]_vars

\* ------------------------------------------- connecting, removing, layout
MaxEdgeEvents == 5

InitEdges == Started(<<>>, MaxEdgeEvents)

NextEdges ==
    \/ AddHomeserver \/ AddHomeserverTask \/ AddHomeserverReturns
    \/ AddClient \/ AddClientTask
    \/ RemoveNode
    \/ ConnectRequest \/ ConnectTask \/ ConnectReturns
    \/ LayoutTick

SpecEdges == InitEdges /\ [][NextEdges]_vars

\* ------------------------------------------------- scenario files, relaunch
MaxOps == 2

\* operations of every variant; the write at 19.299999999999986 s is the 50th
\* operation of the built-in "Indexer Stress Test", whose offsets are sums
OpInputs ==
    { CreateHomeserver(0, HomeserverName(1)),
      CreateHomeserver(-50, HomeserverName(2)),
      CreateClient(0, ClientName(1)),
      ConnectClient(100, ClientName(1), HomeserverName(1)),
      WriteData(200, ClientName(1), "/pub/publar/file_1.txt", "Data"),
      [WriteData(1930, ClientName(5), "/pub/publar/file_3.txt", "Data")
           EXCEPT !.at_ulps = -4],
      ReadData(200, ClientName(1), "/pub/publar/file_1.txt"),
      WaitForHomeserver(100, HomeserverName(1), 500) }

RECURSIVE SeqsUpTo(_, _)
SeqsUpTo(set, n) ==
    IF n = 0 THEN { <<>> }
    ELSE SeqsUpTo(set, n - 1)
         \cup { Append(q, x) : q \in { r \in SeqsUpTo(set, n - 1) : Len(r) = n - 1 },
                               x \in set }

ScenarioInputs ==
    { [ name |-> "Exported", description |-> d, operations |-> ops ] :
        d \in {"", "An exported scenario"}, ops \in SeqsUpTo(OpInputs, MaxOps) }

\* built_in_scenarios(): what the directory loads, the hardcoded list if that
\* is empty
built_in_scenarios(files) ==
    { IF loaded = <<>> THEN << rate_limiting >> ELSE loaded :
        loaded \in load_from_directory(files) }

SaveScenario == \E i \in 1..Len(scenarios) :
    /\ Running /\ is_network_running /\ scenario_files = <<>>
    /\ Apply(to_file(St, scenarios[i]))

\* the application is closed and launched again: the state after construction,
\* with the scenarios that built_in_scenarios() returns
Relaunch ==
    /\ is_network_running /\ scenario_files # <<>>
    /\ scenarios' \in built_in_scenarios(scenario_files)
    /\ scenario_files' = scenario_files
    /\ is_network_running' = FALSE
    /\ nodes' = <<>> /\ positions' = <<>> /\ edges' = <<>>
    /\ client_keypairs' = EmptyMap /\ client_sessions' = EmptyMap
    /\ testnet' = FALSE /\ manager_lock' = NoTask /\ homeserver_urls' = <<>>
    /\ is_creating_homeserver' = FALSE /\ is_creating_client' = FALSE
    /\ is_playing_scenario' = FALSE
    /\ event_log' = <<>> /\ event_counter' = 0
    /\ is_writing' = FALSE /\ is_reading' = FALSE
    /\ tasks' = EmptyMap /\ stuck' = NoTask
    /\ provisioned' = 0 /\ keys_made' = 0 /\ connects_done' = <<>>
    /\ budget' = MaxEvents /\ ticks' = 0 /\ layout_spawned' = FALSE

InitJson == \E s \in ScenarioInputs : Started(<< s >>, 0) /\ testnet = TRUE

NextJson == SaveScenario \/ Relaunch

SpecJson == InitJson /\ [][NextJson]_vars



\* ============================================================= properties
ScenarioTasks == {tid \in DOMAIN tasks : tasks[tid].kind = "scenario"}

OpsOf(t) == scenarios[t.scenario].operations

\* C1: topology integrity: every Edge of Topology State has its from-id and
\* its to-id in the Node set.
TopologyIntegrity ==
    \A i \in 1..Len(edges) :
        edges[i].from \in NodeIds(nodes) /\ edges[i].to \in NodeIds(nodes)

\* C2: scenario ordering: the operations a run has dispatched are in
\* non-decreasing offset order, equal offsets in declaration order.
ScenarioOrdering ==
    \A tid \in ScenarioTasks :
        LET d == tasks[tid].dispatched
            ops == OpsOf(tasks[tid])
        IN  \A i, j \in 1..Len(d) :
                i < j => /\ ops[d[i]].at_seconds <= ops[d[j]].at_seconds
                         /\ (ops[d[i]].at_seconds = ops[d[j]].at_seconds => d[i] < d[j])

\* C3: no abort on failure: a run dispatches its operations one by one in list
\* order; after a failed operation k the player stands at operation k+1
\* (dispatched, or asleep until its offset); a completed run has made exactly
\* N dispatch attempts.
NoAbortOnFailure ==
    \A tid \in ScenarioTasks :
        LET t == tasks[tid]
            N == Len(OpsOf(t))
        IN  /\ \A i \in 1..Len(t.dispatched) : t.dispatched[i] = i
            /\ Len(t.dispatched) <= N
            /\ t.pc = "completed" => Len(t.dispatched) = N
            /\ \A k \in 1..Len(t.results) :
                  (t.results[k] = "failed" /\ k < N) =>
                      \/ Len(t.dispatched) > k
                      \/ t.op = k + 1 /\ t.pc = "sleeping"

NoAbortWitness ==
    \E tid \in ScenarioTasks :
        /\ tasks[tid].pc = "completed"
        /\ Len(tasks[tid].dispatched) = Len(OpsOf(tasks[tid]))
        /\ \E k \in 1..Len(tasks[tid].results) :
              k < Len(tasks[tid].results) /\ tasks[tid].results[k] = "failed"
        /\ \E k \in 1..Len(tasks[tid].results) : tasks[tid].results[k] = "ok"

\* C4: every scenario operation that fails appends an Error entry to the Event
\* Log before the player goes on: a step of the player never records more
\* failed operations than it appends Error entries.
ErrorsAppended ==
    Cardinality({k \in (Len(event_log) + 1)..Len(event_log') :
                    event_log'[k].event_type = "Error"})

FailuresRecorded(tid) ==
    Cardinality({k \in (Len(tasks[tid].results) + 1)..Len(tasks'[tid].results) :
                    tasks'[tid].results[k] = "failed"})

EveryFailureLogged ==
    [][ \A tid \in ScenarioTasks :
            (tid \in DOMAIN tasks' /\ tasks'[tid].results # tasks[tid].results)
                => FailuresRecorded(tid) <= ErrorsAppended ]_vars

\* C5: a task suspended in a Storage Directory call holds no lock.
NoLockAcrossSuspension ==
    \A tid \in DOMAIN tasks : tasks[tid].pc = "awaiting" => manager_lock # tid

\* C6: while one operation is suspended in a Storage Directory call, no other
\* started operation is kept from making its own call.
OperationsIndependent ==
    \A tid \in DOMAIN tasks :
        ~(tasks[tid].pc = "lock_wait" /\ manager_lock # NoTask
            /\ tasks[manager_lock].pc = "awaiting")

\* ------------------------------------------- calls in flight, seen from outside
OpOf(t) == OpsOf(t)[t.op]

\* the task is suspended in connect_client().await
ConnectCall(t) ==
    /\ t.pc = "awaiting"
    /\ \/ t.kind = "connect"
       \/ t.kind = "scenario" /\ OpOf(t).type = "connect_client"

\* the task is suspended in write_to_homeserver().await or read_from_homeserver().await
DataCall(t) ==
    /\ t.pc = "awaiting"
    /\ \/ t.kind \in {"write", "read"}
       \/ t.kind = "scenario" /\ OpOf(t).type \in {"write_data", "read_data"}

ClientOf(t) == IF t.kind = "scenario" THEN OpOf(t).client_id ELSE t.client_id

HomeserverOf(t) == IF t.kind = "scenario" THEN OpOf(t).homeserver_id ELSE t.homeserver_id

\* the task has taken a step of its own
Stepped(tid) == tid \notin DOMAIN tasks' \/ tasks'[tid] # tasks[tid]

\* the call of tid has been started by this step
Started_(tid, Call(_)) ==
    /\ tid \in DOMAIN tasks' /\ Call(tasks'[tid])
    /\ ~(tid \in DOMAIN tasks /\ Call(tasks[tid]) /\ tasks[tid].op = tasks'[tid].op)

IsRunningHomeserver(ns, id) ==
    \E i \in 1..Len(ns) :
        ns[i].kind = "Homeserver" /\ ns[i].id = id /\ ns[i].status = "Running"

LatestSession(client_id, upto) ==
    LET mine == {n \in 1..upto : connects_done[n] = client_id}
    IN  IF mine = {} THEN NoSession ELSE CHOOSE n \in mine : \A m \in mine : m <= n

ConnectOnlyToRunning ==
    [][ /\ \A tid \in DOMAIN tasks' :
              Started_(tid, ConnectCall) =>
                  /\ ClientOf(tasks'[tid]) \in DOMAIN client_keypairs'
                  /\ IsRunningHomeserver(nodes', HomeserverOf(tasks'[tid]))
        /\ \A tid \in DOMAIN tasks :
              ( /\ tasks[tid].kind = "connect" /\ tasks[tid].pc = "spawned" /\ Stepped(tid)
                /\ ~( /\ tasks[tid].client_id \in DOMAIN client_keypairs
                      /\ IsRunningHomeserver(nodes, tasks[tid].homeserver_id) ) )
              => /\ tid \notin DOMAIN tasks'
                 /\ UNCHANGED << manager_lock, nodes, edges, client_sessions, connects_done >>
        /\ (Len(edges') > Len(edges) \/ Len(connects_done') > Len(connects_done)) =>
              \E tid \in DOMAIN tasks :
                  /\ ConnectCall(tasks[tid]) /\ manager_lock = tid /\ Stepped(tid)
                  /\ edges' = Append(edges, Edge(ClientOf(tasks[tid]), HomeserverOf(tasks[tid])))
      ]_vars

\* the nodes with connected_homeserver of the client found under client_id set
SetConnected(ns, client_id, homeserver_id) ==
    LET i == FirstIndex(ns, "Client", client_id)
    IN  IF i = 0 THEN ns ELSE [ns EXCEPT ![i].connected_homeserver = homeserver_id]

Registry == << nodes, edges, client_keypairs, client_sessions, homeserver_urls >>

IsDataOp(op) == op.type \in {"write_data", "read_data"}

NodeIdsUnique ==
    \A i, j \in 1..Len(nodes) : nodes[i].id = nodes[j].id => i = j

\* the task is suspended in create_homeserver().await
ProvisionCall(t) ==
    /\ t.pc = "awaiting"
    /\ \/ t.kind = "add_homeserver"
       \/ t.kind = "scenario" /\ OpOf(t).type = "create_homeserver"

ProvisionId(t) == IF t.kind = "scenario" THEN OpOf(t).id ELSE t.id

HasStarting(ns, id) ==
    \E i \in 1..Len(ns) :
        ns[i].kind = "Homeserver" /\ ns[i].id = id /\ ns[i].status = "Starting"

\* C12: every storage-node creation request inserts exactly one Node with
\* status Starting before its provisioning call is started: the user's request
\* appends it in the handler, and when the Scenario Player has started the
\* provisioning call of a create operation the Starting Node of that id is there.
StartingBeforeProvisioning ==
    [][ /\ \A tid \in DOMAIN tasks' :
              (tid \notin DOMAIN tasks /\ tasks'[tid].kind = "add_homeserver") =>
                  nodes' = Append(nodes, Homeserver(tasks'[tid].id, "Starting", None, None))
        /\ \A tid \in ScenarioTasks :
              Started_(tid, ProvisionCall) => HasStarting(nodes', ProvisionId(tasks'[tid]))
      ]_vars

\* every spawned future is polled again once it can make a step, and every
\* collaborator call returns: the scheduler is fair to the tasks, not to the user
Fairness ==
    /\ WF_vars(StartTask) /\ WF_vars(StartReturns) /\ WF_vars(StopTask)
    /\ WF_vars(AddHomeserverTask) /\ WF_vars(AddHomeserverReturns)
    /\ WF_vars(AddClientTask)
    /\ WF_vars(ConnectTask) /\ WF_vars(ConnectReturns)
    /\ WF_vars(WriteTask) /\ WF_vars(WriteReturns)
    /\ WF_vars(ReadTask) /\ WF_vars(ReadReturns)

SpecLive == Init /\ [][Next]_vars /\ Fairness

SomeStarting == \E i \in 1..Len(nodes) : nodes[i].status = "Starting"

\* C13: while every provisioning call returns, a Node inserted with status
\* Starting is eventually Running or Error or removed: whenever some Node is
\* Starting, a later state has no Starting Node.
StartingResolves == SomeStarting ~> ~SomeStarting

HasError(ns, id) ==
    \E i \in 1..Len(ns) :
        ns[i].kind = "Homeserver" /\ ns[i].id = id /\ ns[i].status = "Error"

ErrorEntryAppended ==
    /\ Len(event_log') = Len(event_log) + 1
    /\ event_log'[Len(event_log')].event_type = "Error"

\* the user's creation task ends in this step and its provisioning call has failed
UserProvisionFailed(tid) ==
    /\ tasks[tid].kind = "add_homeserver"
    /\ tid \notin DOMAIN tasks'
    /\ provisioned' = provisioned

\* C14: when the provisioning call of a node creation fails, the Node of that
\* request has status Error and an Error entry for the failure is appended to
\* the Event Log, on the user-triggered path and on the scenario path.
ProvisionFailureRecorded ==
    [][ /\ \A tid \in DOMAIN tasks :
              UserProvisionFailed(tid) =>
                  /\ HasStarting(nodes, tasks[tid].id) => HasError(nodes', tasks[tid].id)
                  /\ ErrorEntryAppended
        /\ \A tid \in ScenarioTasks :
              \A k \in (Len(tasks[tid].results) + 1)..Len(tasks'[tid].results) :
                  ( /\ OpsOf(tasks[tid])[k].type = "create_homeserver"
                    /\ tasks'[tid].results[k] = "failed" )
                  => /\ HasError(nodes', OpsOf(tasks[tid])[k].id)
                     /\ ErrorsAppended >= 1
      ]_vars

\* the user-path half of C14 alone
UserProvisionFailureLogged ==
    [][ \A tid \in DOMAIN tasks : UserProvisionFailed(tid) => ErrorEntryAppended ]_vars

\* the scenario-path half of C14 alone
ScenarioProvisionFailureMarked ==
    [][ \A tid \in ScenarioTasks :
            \A k \in (Len(tasks[tid].results) + 1)..Len(tasks'[tid].results) :
                ( /\ OpsOf(tasks[tid])[k].type = "create_homeserver"
                  /\ tasks'[tid].results[k] = "failed" )
                => HasError(nodes', OpsOf(tasks[tid])[k].id)
      ]_vars

\* C15: a ClientIdentity Node in Topology State is never Starting and always
\* has its keypair stored in the identity map.
ClientAlwaysRunning ==
    \A i \in 1..Len(nodes) :
        nodes[i].kind = "Client" =>
            /\ nodes[i].status # "Starting"
            /\ nodes[i].id \in DOMAIN client_keypairs

\* the status half of C15 alone
ClientNeverStarting ==
    \A i \in 1..Len(nodes) : nodes[i].kind = "Client" => nodes[i].status # "Starting"

\* the keypair half of C15, for the clients that are Running
RunningClientHasKeypair ==
    \A i \in 1..Len(nodes) :
        (nodes[i].kind = "Client" /\ nodes[i].status = "Running") =>
            nodes[i].id \in DOMAIN client_keypairs

\* C16: removing the Node with id X also removes the keypair entry and the
\* Session entry keyed by X: after a remove step neither map contains X.
RemoveDropsEntries ==
    [][ \A id \in NodeIds(nodes) :
            ( /\ nodes' = Retain(nodes, id)
              /\ tasks' = tasks
              /\ is_network_running' = is_network_running )
            => /\ id \notin DOMAIN client_keypairs'
               /\ id \notin DOMAIN client_sessions'
      ]_vars

Cleared(S) ==
    /\ S.nodes = <<>> /\ S.edges = <<>>
    /\ S.client_keypairs = EmptyMap /\ S.client_sessions = EmptyMap

RegistryCleared == Cleared(St)

\* reset clears the four collections and is idempotent, in every reachable state
ResetClears == Cleared(on_reset(St)) /\ on_reset(on_reset(St)) = on_reset(St)

\* C17: teardown, by reset and by stopping the network, leaves the Node set,
\* the Edge list, the keypair map and the session map empty, and a second
\* teardown right after changes nothing.
TeardownClears ==
    [][ /\ (is_network_running /\ ~is_network_running') => RegistryCleared'
        /\ ResetClears
      ]_vars

\* C18: cancellation: after a stop request (reset or network stop) issued
\* during a scenario run the player dispatches no further operation of that
\* run: a run dispatches only while the network runs and the run has not been
\* stopped (is_playing_scenario is cleared by reset and by the end of the run).
NoDispatchAfterStop ==
    [][ \A tid \in ScenarioTasks :
            ( /\ tid \in DOMAIN tasks'
              /\ Len(tasks'[tid].dispatched) > Len(tasks[tid].dispatched) )
            => is_playing_scenario /\ is_network_running
      ]_vars

IsTimeoutEntry(e) == e.message = "not ready (timeout)" /\ e.event_type = "Error"

TimeoutsAppended ==
    Cardinality({k \in (Len(event_log) + 1)..Len(event_log') : IsTimeoutEntry(event_log'[k])})

\* the wait of tid ends in this step without the probe having succeeded
WaitTimesOut(tid) ==
    /\ tasks[tid].pc = "poll_sleep"
    /\ tid \in DOMAIN tasks'
    /\ Len(tasks'[tid].results) > Len(tasks[tid].results)

\* C19: timeout bound: a WaitForHomeserver with timeout T whose probe never
\* succeeds appends exactly one timeout Error entry, at most T plus one poll
\* interval after the dispatch, and the player goes on with the next operation.
TimeoutBound ==
    [][ \A tid \in ScenarioTasks :
            WaitTimesOut(tid) =>
                /\ TimeoutsAppended = 1
                /\ tasks[tid].waited + PollInterval
                       <= OpOf(tasks[tid]).timeout_seconds + PollInterval
                /\ tasks'[tid].results[tasks[tid].op] = "failed"
                /\ tasks'[tid].op > tasks[tid].op
      ]_vars

\* C19 without the bound: one timeout entry, and the player goes on
TimeoutLoggedOnce ==
    [][ \A tid \in ScenarioTasks :
            WaitTimesOut(tid) =>
                /\ TimeoutsAppended = 1
                /\ tasks'[tid].results[tasks[tid].op] = "failed"
                /\ tasks'[tid].op > tasks[tid].op
      ]_vars

SequentialDispatch ==
    \A tid \in ScenarioTasks :
        LET t == tasks[tid]
        IN  /\ \A i \in 1..Len(t.dispatched) : t.dispatched[i] = i
            /\ Len(t.results) <= Len(t.dispatched)
            /\ Len(t.dispatched) <= Len(t.results) + 1
            /\ t.pc \in {"awaiting", "probing", "poll_sleep", "lock_wait"} =>
                  t.op = Len(t.dispatched) /\ Len(t.results) = t.op - 1
            /\ t.pc \in {"sleeping", "completed"} => Len(t.results) = Len(t.dispatched)

SequentialDispatchWitness ==
    \E tid \in ScenarioTasks :
        /\ tasks[tid].pc = "awaiting"
        /\ Len(tasks[tid].results) >= 2
        /\ Len(tasks[tid].dispatched) = Len(tasks[tid].results) + 1

FairnessPlay ==
    /\ Fairness
    /\ WF_vars(ScenarioStart) /\ WF_vars(ScenarioWake) /\ WF_vars(ScenarioReturns)

SpecPlayLive == InitPlay /\ [][NextPlay]_vars /\ FairnessPlay

RunActive == \E tid \in ScenarioTasks : tasks[tid].pc # "completed"

\* C22: while every collaborator call returns, every started scenario run
\* eventually reaches Completed, under every interleaving with the user's actions.
RunCompletes == RunActive ~> ~RunActive

AppendedOfType(types) ==
    Cardinality({k \in (Len(event_log) + 1)..Len(event_log') :
                    event_log'[k].event_type \in types})

\* C23: for every operation the player dispatches the Event Log receives an
\* Info entry at dispatch and exactly one Success or Error entry at completion:
\* a step of the player appends one Info entry for each operation it dispatches
\* and one Success or Error entry for each operation it completes.
DispatchAndCompletionLogged ==
    [][ \A tid \in ScenarioTasks :
            (tid \in DOMAIN tasks' /\ Stepped(tid)) =>
                /\ AppendedOfType({"Info"}) =
                       Len(tasks'[tid].dispatched) - Len(tasks[tid].dispatched)
                /\ AppendedOfType({"Success", "Error"}) =
                       Len(tasks'[tid].results) - Len(tasks[tid].results)
      ]_vars

\* the completion half of C23 for the operations that called the collaborator
CollaboratorResultLogged ==
    [][ \A tid \in ScenarioTasks :
            (tid \in DOMAIN tasks' /\ Stepped(tid) /\ tasks[tid].pc = "awaiting") =>
                AppendedOfType({"Success", "Error"}) >= 1
      ]_vars

\* the user's connect task ends in this step without a Session stored
UserConnectFailed(tid) ==
    /\ tasks[tid].kind = "connect"
    /\ tid \notin DOMAIN tasks'
    /\ connects_done' = connects_done

\* the user's write or read task ends in this step without a Success entry
UserDataFailed(tid) ==
    /\ tasks[tid].kind \in {"write", "read"}
    /\ tid \notin DOMAIN tasks'
    /\ AppendedOfType({"Success"}) = 0

\* C24: every user-triggered action that fails appends an Error entry to the
\* Event Log.
UserFailuresLogged ==
    [][ \A tid \in DOMAIN tasks :
            (UserProvisionFailed(tid) \/ UserConnectFailed(tid) \/ UserDataFailed(tid))
            => AppendedOfType({"Error"}) >= 1
      ]_vars

\* the write and read part of C24 alone
UserDataFailuresLogged ==
    [][ \A tid \in DOMAIN tasks : UserDataFailed(tid) => AppendedOfType({"Error"}) >= 1 ]_vars

\* the connect part of C24 alone
UserConnectFailuresLogged ==
    [][ \A tid \in DOMAIN tasks : UserConnectFailed(tid) => AppendedOfType({"Error"}) >= 1 ]_vars

IsPrefix(s, t) == Len(s) <= Len(t) /\ SubSeq(t, 1, Len(s)) = s

\* C25: the Event Log is append-only: the log of every state is a prefix of
\* the log of every later state.
AppendOnly == [][ IsPrefix(event_log, event_log') ]_vars

\* C25 for the steps of the tasks and of the handlers that spawn one
AppendOnlyInTasks == [][ tasks' # tasks => IsPrefix(event_log, event_log') ]_vars

\* C26: Event Log entry ids are strictly increasing in append order, under
\* every interleaving of the player with the user's writes and reads and across
\* resets: every new entry has an id that no earlier entry ever had.
EntryIdsIncrease ==
    [][ /\ \A i, j \in 1..Len(event_log') :
              i < j => event_log'[i].id < event_log'[j].id
        /\ \A k \in 1..Len(event_log') :
              (k > Len(event_log) \/ event_log'[k] # event_log[k]) =>
                  /\ event_log'[k].id >= event_counter
                  /\ event_log'[k].id < event_counter'
        /\ event_counter' >= event_counter
      ]_vars

\* entries appended by the player after a reset removed the entries 0..n
EntryIdsIncreaseWitness ==
    /\ Len(event_log) >= 2
    /\ event_log[1].id > 0
    /\ event_counter = event_log[Len(event_log)].id + 1

InCanvas(p) ==
    /\ CanvasMinX <= p[1] /\ p[1] <= CanvasMaxX
    /\ CanvasMinY <= p[2] /\ p[2] <= CanvasMaxY

Ticked == ticks' = ticks + 1

\* C27: after any layout tick every node position lies inside the canvas
\* rectangle (x in [100, 1100], y in [100, 700]), whatever the positions, the
\* edges and the number of nodes were before the tick.
TickKeepsInCanvas ==
    [][ Ticked => \A i \in 1..Len(positions') : InCanvas(positions'[i]) ]_vars

\* a tick has run on two or more nodes of which one had been dragged out of the
\* canvas, and every node is inside it
TickKeepsInCanvasWitness ==
    /\ ticks >= 1
    /\ Len(nodes) >= 2
    /\ \E i \in 1..Len(positions) : positions[i][1] = CanvasMinX
    /\ \A i \in 1..Len(positions) : InCanvas(positions[i])

\* C28: a layout tick changes node positions only: the nodes (their set, order,
\* status and metadata), the edge list, the keypair map and the session map are
\* the same after the tick as before it, also when the tick runs between the
\* start and the completion of a creation task.
TickChangesPositionsOnly ==
    [][ Ticked => /\ nodes' = nodes
                  /\ Len(positions') = Len(positions)
                  /\ edges' = edges
                  /\ client_keypairs' = client_keypairs
                  /\ client_sessions' = client_sessions
                  /\ homeserver_urls' = homeserver_urls
                  /\ tasks' = tasks ]_vars

\* a tick has moved a node while a creation task was waiting for its result, and
\* the node of that task is still Starting
TickChangesPositionsOnlyWitness ==
    /\ ticks >= 1
    /\ \E tid \in DOMAIN tasks :
          /\ TaskAt(tid, "add_homeserver", "awaiting")
          /\ \E i \in 1..Len(nodes) :
                /\ nodes[i].id = tasks[tid].id /\ nodes[i].status = "Starting"
                /\ positions[i] # calculate_initial_position(i - 1)
                /\ positions[i] \notin DragTargets

NodeAdded == Len(nodes') = Len(nodes) + 1

\* C29: for every sequence of create and remove operations, the initial position
\* computed for a newly created node differs from the current position of every
\* node already in the topology.
NewNodeApart ==
    [][ NodeAdded => \A i \in 1..Len(positions) :
                        positions'[Len(positions')] # positions[i] ]_vars

Relaunched == is_network_running /\ ~is_network_running'

\* C30: for every Scenario, from_json(to_json(s)) succeeds and yields the same
\* name, description and operation list: same length, same order, same offset,
\* same action variant and same field values for each operation.
RoundTrip ==
    [][ (Relaunched /\ scenario_files = << to_json(scenarios[1]) >>)
            => scenarios' = << scenarios[1] >> ]_vars

\* what the round trip keeps: it succeeds with the same name, description,
\* length, order, variants and fields, and every offset within one unit in the
\* last place
RoundTripButLastPlace ==
    [][ (Relaunched /\ scenario_files = << to_json(scenarios[1]) >>)
            => /\ Len(scenarios') = 1
               /\ scenarios'[1].name = scenarios[1].name
               /\ scenarios'[1].description = scenarios[1].description
               /\ Len(scenarios'[1].operations) = Len(scenarios[1].operations)
               /\ \A i \in 1..Len(scenarios[1].operations) :
                     LET a == scenarios[1].operations[i]
                         b == scenarios'[1].operations[i]
                     IN  /\ [b EXCEPT !.at_ulps = a.at_ulps] = a
                         /\ b.at_ulps - a.at_ulps \in {-1, 0, 1}
                         /\ a.at_ulps = 0 => b = a ]_vars

\* the magnitude of the repulsion the tick applies to the pair (a, b), in
\* thousandths of a unit
PairMagnitude(a, b) ==
    LET f == Repulsion(a, b) IN Sqrt(f[1] * f[1] + f[2] * f[2])

\* the same for two nodes d units apart
MagnitudeAt(d) ==
    PairMagnitude(ForceNode("a", << 0, 0 >>), ForceNode("b", << d * Milli, 0 >>))

ProbeDistances == {50, 200, 400}

\* what truncation may take from a magnitude: less than one thousandth each in
\* the force, in either component and in the root
Resolution == 4

\* C31: for any two distances d1 < d2 with d2 >= MIN_DISTANCE, the repulsion
\* the tick applies at distance d1 is strictly greater than the one it applies
\* at distance d2. Here d1 is the distance of a pair of nodes a tick is due
\* for, d2 a distance of ProbeDistances, and greater is taken up to the
\* resolution of the fixed-point arithmetic.
RepulsionMonotone ==
    layout_spawned =>
        \A i, j \in 1..Len(nodes) : i < j =>
            LET fs == from_nodes(nodes, positions)
            IN  \A d2 \in ProbeDistances :
                    (d2 >= MIN_DISTANCE /\ Distance(fs[i], fs[j]) < d2 * 10)
                        => PairMagnitude(fs[i], fs[j]) + Resolution > MagnitudeAt(d2)

\* the same for pairs that are at least MIN_DISTANCE apart
RepulsionMonotoneBeyondMin ==
    layout_spawned =>
        \A i, j \in 1..Len(nodes) : i < j =>
            LET fs == from_nodes(nodes, positions)
            IN  \A d2 \in ProbeDistances :
                    ( /\ Distance(fs[i], fs[j]) >= MIN_DISTANCE * 10
                      /\ Distance(fs[i], fs[j]) < d2 * 10 )
                        => PairMagnitude(fs[i], fs[j]) + Resolution > MagnitudeAt(d2)

EndpointAndKeySet(n) == n.http_url # None /\ n.public_key # None

EndpointAndKeyUnset(n) == n.http_url = None /\ n.public_key = None

\* C32: a homeserver has its endpoint and its public key set if and only if its
\* status is Running; a Starting or Error homeserver has neither, and a Running
\* homeserver never returns to Starting.
EndpointIffRunning ==
    [][ /\ \A i \in 1..Len(nodes') :
              nodes'[i].kind = "Homeserver" =>
                  IF nodes'[i].status = "Running" THEN EndpointAndKeySet(nodes'[i])
                  ELSE EndpointAndKeyUnset(nodes'[i])
        /\ \A i \in 1..Len(nodes) :
              ( /\ i <= Len(nodes') /\ nodes[i].kind = "Homeserver"
                /\ nodes'[i].id = nodes[i].id /\ nodes[i].status = "Running" )
                  => nodes'[i].status # "Starting" ]_vars

\* the part that holds: what is not Running is Starting or Error, a Starting
\* homeserver has neither endpoint nor key, a Running one has both
StartingHasNeither ==
    \A i \in 1..Len(nodes) :
        nodes[i].kind = "Homeserver" =>
            /\ nodes[i].status \in {"Starting", "Running", "Error"}
            /\ nodes[i].status = "Starting" => EndpointAndKeyUnset(nodes[i])
            /\ nodes[i].status = "Running" => EndpointAndKeySet(nodes[i])

Dangling(e) == e.from \notin NodeIds(nodes) \/ e.to \notin NodeIds(nodes)

\* C33: a layout tick over a topology with an edge whose endpoint is missing
\* from the nodes completes normally: no spring is applied for that edge, and
\* repulsion, damping and clamping are applied to every node that is present,
\* so the positions are those of a tick over the edges with both endpoints.
TickSkipsDanglingEdges ==
    [][ (Ticked /\ \E k \in 1..Len(edges) : Dangling(edges[k]))
            => /\ positions' =
                    layout_tick([St EXCEPT
                        !.edges = SelectSeq(edges, LAMBDA e : ~Dangling(e))]).positions
               /\ \A i \in 1..Len(positions') : InCanvas(positions'[i])
               /\ stuck' = NoTask ]_vars

\* two clients, the first with an edge to a homeserver that has been removed,
\* and a tick has pushed the second away from where it was placed
TickSkipsDanglingEdgesWitness ==
    /\ ticks >= 1
    /\ Len(nodes) = 2 /\ nodes[1].kind = "Client" /\ nodes[2].kind = "Client"
    /\ \E k \in 1..Len(edges) : edges[k].from = nodes[1].id /\ Dangling(edges[k])
    /\ positions[2] # calculate_initial_position(1)

\* the player has reached the operation and its offset is not ahead of the run
PastDue(t) ==
    /\ t.pc \notin {"spawned", "completed"}
    /\ t.op <= Len(OpsOf(t))
    /\ OpsOf(t)[t.op].at_seconds <= t.elapsed

\* C34: an operation whose scheduled time has already passed when the player
\* reaches it, a zero or negative offset included, is dispatched at once
\* without suspending, and the run goes on.
PastDueDispatched ==
    \A tid \in ScenarioTasks :
        PastDue(tasks[tid]) =>
            /\ tasks[tid].pc \notin {"sleeping", "panicked"}
            /\ tasks[tid].dispatched # <<>>
            /\ tasks[tid].dispatched[Len(tasks[tid].dispatched)] = tasks[tid].op

\* the same for offsets that are not negative
PastDueNonNegativeDispatched ==
    \A tid \in ScenarioTasks :
        (PastDue(tasks[tid]) /\ OpsOf(tasks[tid])[tasks[tid].op].at_seconds >= 0) =>
            /\ tasks[tid].pc \notin {"sleeping", "panicked"}
            /\ tasks[tid].dispatched # <<>>
            /\ tasks[tid].dispatched[Len(tasks[tid].dispatched)] = tasks[tid].op

\* an operation with an offset behind the run has been dispatched without a sleep
PastDueNonNegativeWitness ==
    \E tid \in ScenarioTasks :
        /\ tasks[tid].pc = "awaiting"
        /\ OpsOf(tasks[tid])[tasks[tid].op].at_seconds < tasks[tid].elapsed

\* ------------------------------------------------------------------- C35
CreationTasks(ts, kind) == {tid \in DOMAIN ts : ts[tid].kind = kind}

CreationStep ==
    /\ is_creating_homeserver =>
          /\ CreationTasks(tasks', "add_homeserver") \subseteq CreationTasks(tasks, "add_homeserver")
          /\ CountKind(nodes', "Homeserver") <= CountKind(nodes, "Homeserver")
    /\ is_creating_client =>
          /\ CreationTasks(tasks', "add_client") \subseteq CreationTasks(tasks, "add_client")
          /\ CountKind(nodes', "Client") <= CountKind(nodes, "Client")
    /\ Cardinality(CreationTasks(tasks', "add_homeserver")) = IF is_creating_homeserver' THEN 1 ELSE 0
    /\ Cardinality(CreationTasks(tasks', "add_client")) = IF is_creating_client' THEN 1 ELSE 0

\* C35: for each node kind at most one user-triggered creation is in flight: a
\* step taken while the creating flag of a kind is set adds no Node of that kind
\* and starts no creation task of that kind, and after every step the flag of a
\* kind is set exactly when one creation task of that kind is in flight, so it is
\* cleared when the creation finishes, in success or in failure.
OneCreationInFlight == [][CreationStep]_vars

\* a homeserver creation has failed and its flag is clear again, while a client
\* creation is in flight under its flag and the user may still click
OneCreationInFlightWitness ==
    /\ \E i \in 1..Len(nodes) : nodes[i].kind = "Homeserver" /\ nodes[i].status = "Error"
    /\ ~is_creating_homeserver /\ CreationTasks(tasks, "add_homeserver") = {}
    /\ is_creating_client /\ CreationTasks(tasks, "add_client") # {}
    /\ is_network_running /\ budget > 0 /\ stuck = NoTask

\* ------------------------------------------------------------------- C36
ClientNodeIds == {nodes[i].id : i \in {j \in 1..Len(nodes) : nodes[j].kind = "Client"}}

\* C36: in every reachable state every key of the session map is a key of the
\* keypair map, and every key of the keypair map is the id of a Client node of
\* Topology State.
SessionsWithinKeypairsWithinClients ==
    /\ DOMAIN client_sessions \subseteq DOMAIN client_keypairs
    /\ DOMAIN client_keypairs \subseteq ClientNodeIds

\* the first half alone: a session is stored only under the id of a stored keypair
SessionsWithinKeypairs == DOMAIN client_sessions \subseteq DOMAIN client_keypairs

\* the second half alone: a keypair is stored only under the id of a Client node
KeypairsWithinClients == DOMAIN client_keypairs \subseteq ClientNodeIds

\* ------------------------------------------------------------------- C37
OutgoingEdges(client_id) == {i \in 1..Len(edges) : edges[i].from = client_id}

EdgeListed(client_id, homeserver_id) ==
    \E i \in 1..Len(edges) : edges[i].from = client_id /\ edges[i].to = homeserver_id

\* C37: in every reachable state each client has at most one outgoing Connection
\* Edge, and a client has connected node h if and only if the Edge list contains
\* (client, h): no Edge to a previous node and no duplicate Edge is left.
OneEdgePerClient ==
    \A i \in 1..Len(nodes) : nodes[i].kind = "Client" =>
        /\ Cardinality(OutgoingEdges(nodes[i].id)) <= 1
        /\ \A h \in NodeIds(nodes) \cup {edges[e].to : e \in 1..Len(edges)} :
              nodes[i].connected_homeserver = h <=> EdgeListed(nodes[i].id, h)

\* one direction alone: the connected node of a client is the target of one of
\* its Edges
ConnectedHasEdge ==
    \A i \in 1..Len(nodes) :
        (nodes[i].kind = "Client" /\ nodes[i].connected_homeserver # None) =>
            EdgeListed(nodes[i].id, nodes[i].connected_homeserver)

\* ------------------------------------------------------------------- C38
\* C38: while the network is stopped the topology is empty: in every state where
\* is_network_running is false, the Node set and the Edge list are empty.
StoppedIsEmpty == ~is_network_running => (nodes = <<>> /\ edges = <<>>)

\* ------------------------------------------------------------------- C39
RunsExecuting == {tid \in ScenarioTasks : tasks[tid].pc # "completed"}

\* C39: at most one scenario run is executing at any time: no second scenario
\* task exists while one is still dispatching operations, also after a reset
\* issued during a run.
AtMostOneRun == Cardinality(RunsExecuting) <= 1

\* ------------------------------------------------------------------- C40
\* GET /homeservers: a clone of the shared list of URLs
get_homeservers == homeserver_urls

RunningEndpoints ==
    {nodes[i].http_url : i \in {j \in 1..Len(nodes) :
        nodes[j].kind = "Homeserver" /\ nodes[j].status = "Running"}}

\* C40: in every reachable state the list served by GET /homeservers holds
\* exactly the endpoints of the Homeserver nodes of Topology State whose status
\* is Running: no URL of a node that was removed or cleared, and none added by a
\* creation task that finished after a reset.
ServedListIsRunningEndpoints ==
    {get_homeservers[k] : k \in 1..Len(get_homeservers)} = RunningEndpoints

\* one inclusion alone: the endpoint of every Running homeserver is served
RunningEndpointsServed ==
    RunningEndpoints \subseteq {get_homeservers[k] : k \in 1..Len(get_homeservers)}

====
